---- MODULE Spec2Model ----
(***************************************************************************)
(* Model of the anonymous-survey Solana program                            *)
(* (programs/anonymous-survey/src/lib.rs).                                 *)
(*                                                                         *)
(* One SurveyCampaign account and one UniversityPerformance account are    *)
(* observed.  Every instruction is one atomic transaction: it either       *)
(* commits all of its writes or, on an error or a panic, none of them.     *)
(*                                                                         *)
(* Representation                                                          *)
(*   Pubkey            a string; ZeroPubkey is the all-zero key            *)
(*   [u8; 32]          a natural number; 0 is [0; 32]                      *)
(*   [u8; 256]         a natural number                                    *)
(*   String, Vec<u8>   a record [len, tag]: the byte length and a tag      *)
(*                     standing for the content                            *)
(***************************************************************************)
EXTENDS Integers, Sequences, FiniteSets, TLC

VARIABLES
    campaign,          \* data of the SurveyCampaign account
    campaign_space,    \* bytes allocated to it; 0 = the account does not exist
    final_root,        \* data of the UniversityPerformance account
    final_root_space,  \* bytes allocated to it; 0 = the account does not exist
    clock,             \* Clock::get()?.unix_timestamp
    last               \* the last instruction processed and its outcome

vars == <<campaign, campaign_space, final_root, final_root_space, clock, last>>

(***************************************************************************)
(* Bounds of the model.                                                    *)
(***************************************************************************)
MaxResponses == 3      \* responses stored in the campaign
MaxClock == 1          \* the clock runs from 0 to MaxClock

(***************************************************************************)
(* Program constants.                                                      *)
(***************************************************************************)
MAX_CAMPAIGN_ID_LEN == 50
MAX_SEMESTER_LEN == 20
MAX_CAMPAIGN_TYPE == 1
MAX_PUBLIC_KEY_LEN == 300
INITIAL_RESPONSES == 10
DISCRIMINATOR_LEN == 8
ENCRYPTED_RESPONSE_LEN == 256
COMMITMENT_LEN == 32

(***************************************************************************)
(* Values.                                                                 *)
(***************************************************************************)
Signers == {"alice", "bob"}
ZeroPubkey == "zero"
ZERO_ROOT == 0

Bytes(n, t) == [len |-> n, tag |-> t]
EmptyBytes == Bytes(0, "")

Digests == {ZERO_ROOT, 1}

SeqsUpTo(S, n) == UNION {[1..k -> S] : k \in 0..n}

\* Vectors a caller may pass while the campaign holds n responses: any
\* commitments that fit, and with them the encrypted responses they commit
\* to, or one fewer, or one more.
Payload(commitment) == commitment + 1
Payloads == {Payload(d) : d \in Digests}

CommitmentBatches(n) == SeqsUpTo(Digests, MaxResponses - n)

EncryptedBatches(commitments, n) ==
    LET matching == [i \in 1..Len(commitments) |-> Payload(commitments[i])]
        fewer == IF Len(matching) > 0
                 THEN {SubSeq(matching, 1, Len(matching) - 1)} ELSE {}
        more == IF Len(matching) < MaxResponses - n
                THEN {matching \o <<p>> : p \in Payloads} ELSE {}
    IN  {matching} \cup fewer \cup more

\* create_campaign requests: two that meet every limit, and one beyond each
\* limit in turn.
Request(id_len, sem_len, type, bk_len, ek_len) ==
    [campaign_id |-> Bytes(id_len, "id"),
     semester |-> Bytes(sem_len, "sem"),
     campaign_type |-> type,
     blind_signature_public_key |-> Bytes(bk_len, "bk"),
     encryption_public_key |-> Bytes(ek_len, "ek")]

ValidRequests ==
    {Request(MAX_CAMPAIGN_ID_LEN, MAX_SEMESTER_LEN, MAX_CAMPAIGN_TYPE,
             MAX_PUBLIC_KEY_LEN, MAX_PUBLIC_KEY_LEN),
     Request(8, 6, 0, 294, 294)}

InvalidRequests ==
    {Request(MAX_CAMPAIGN_ID_LEN + 1, MAX_SEMESTER_LEN, MAX_CAMPAIGN_TYPE,
             MAX_PUBLIC_KEY_LEN, MAX_PUBLIC_KEY_LEN),
     Request(MAX_CAMPAIGN_ID_LEN, MAX_SEMESTER_LEN + 1, MAX_CAMPAIGN_TYPE,
             MAX_PUBLIC_KEY_LEN, MAX_PUBLIC_KEY_LEN),
     Request(MAX_CAMPAIGN_ID_LEN, MAX_SEMESTER_LEN, MAX_CAMPAIGN_TYPE + 1,
             MAX_PUBLIC_KEY_LEN, MAX_PUBLIC_KEY_LEN),
     Request(MAX_CAMPAIGN_ID_LEN, MAX_SEMESTER_LEN, MAX_CAMPAIGN_TYPE,
             MAX_PUBLIC_KEY_LEN + 1, MAX_PUBLIC_KEY_LEN),
     Request(MAX_CAMPAIGN_ID_LEN, MAX_SEMESTER_LEN, MAX_CAMPAIGN_TYPE,
             MAX_PUBLIC_KEY_LEN, MAX_PUBLIC_KEY_LEN + 1)}

CreateRequests == ValidRequests \cup InvalidRequests

UniversityIds == {Bytes(4, "uni")}

(***************************************************************************)
(* Account data.                                                           *)
(***************************************************************************)
SurveyCampaign ==
    [authority |-> ZeroPubkey,
     campaign_id |-> EmptyBytes,
     semester |-> EmptyBytes,
     campaign_type |-> 0,
     total_responses |-> 0,
     created_at |-> 0,
     updated_at |-> 0,
     is_published |-> FALSE,
     merkle_root |-> ZERO_ROOT,
     encrypted_responses |-> <<>>,
     commitments |-> <<>>,
     blind_signature_public_key |-> EmptyBytes,
     encryption_public_key |-> EmptyBytes]

UniversityPerformance ==
    [authority |-> ZeroPubkey,
     university_id |-> EmptyBytes,
     total_campaigns |-> 0,
     created_at |-> 0,
     updated_at |-> 0,
     final_merkle_root |-> ZERO_ROOT]

(***************************************************************************)
(* Sizes.                                                                  *)
(***************************************************************************)
\* Faulty variant: the headers of the two vectors are left out.
BASE_LEN_no_vec_headers ==
    32 + 4 + 50 + 4 + 20 + 1 + 4 + 8 + 8 + 1 + 32 + 4 + 300 + 4 + 300

BASE_LEN ==
    32 + 4 + 50 + 4 + 20 + 1 + 4 + 8 + 8 + 1 + 32 + 4 + 4 + 4 + 300 + 4 + 300

calculate_size_for_responses(num_responses) ==
    BASE_LEN + num_responses * (ENCRYPTED_RESPONSE_LEN + COMMITMENT_LEN)

\* Faulty variant: the encrypted responses are still counted.
calculate_size_after_publishing_with_payloads(num_responses) ==
    BASE_LEN + num_responses * (ENCRYPTED_RESPONSE_LEN + COMMITMENT_LEN)

calculate_size_after_publishing(num_responses) ==
    BASE_LEN + num_responses * COMMITMENT_LEN

UniversityPerformance_LEN == 32 + 4 + 50 + 4 + 8 + 8 + 32

CreateCampaign_space == DISCRIMINATOR_LEN + calculate_size_for_responses(INITIAL_RESPONSES)

InitializeFinalRoot_space == DISCRIMINATOR_LEN + UniversityPerformance_LEN

\* Bytes the account data takes when it is written back at the end of an
\* instruction: the discriminator and the fields in declared order, strings
\* and vectors with a 4-byte length prefix.
SerializedLen(c) ==
    DISCRIMINATOR_LEN + 32
    + 4 + c.campaign_id.len
    + 4 + c.semester.len
    + 1 + 4 + 8 + 8 + 1 + 32
    + 4 + ENCRYPTED_RESPONSE_LEN * Len(c.encrypted_responses)
    + 4 + COMMITMENT_LEN * Len(c.commitments)
    + 4 + c.blind_signature_public_key.len
    + 4 + c.encryption_public_key.len

(***************************************************************************)
(* MerkleBuilder: the root the server computes from the commitments before *)
(* it calls publish_campaign_results.  hash is an ideal hash: injective,   *)
(* and never the zero digest.                                              *)
(***************************************************************************)
hash(a, b) == ((a + b) * (a + b + 1)) \div 2 + b + 1

\* Variant: an unpaired last node is paired with itself.
RECURSIVE next_level_duplicate(_)
next_level_duplicate(level) ==
    IF Len(level) = 0 THEN <<>>
    ELSE IF Len(level) = 1 THEN <<hash(level[1], level[1])>>
    ELSE <<hash(level[1], level[2])>>
             \o next_level_duplicate(SubSeq(level, 3, Len(level)))

RECURSIVE next_level(_)
next_level(level) ==
    IF Len(level) = 0 THEN <<>>
    ELSE IF Len(level) = 1 THEN level
    ELSE <<hash(level[1], level[2])>> \o next_level(SubSeq(level, 3, Len(level)))

RECURSIVE build_root(_)
build_root(commitments) ==
    IF Len(commitments) = 0 THEN ZERO_ROOT
    ELSE IF Len(commitments) = 1 THEN commitments[1]
    ELSE build_root(next_level(commitments))

\* The roots a caller may pass for campaign data c: any digest, and the root
\* computed off-chain from the stored commitments.
Roots(c) == Digests \cup {build_root(c.commitments)}

(***************************************************************************)
(* The end of an instruction: Anchor writes the account back into the      *)
(* space allocated to it, which no instruction of this program resizes.    *)
(***************************************************************************)
exit(result, c, space) ==
    IF result # "Ok" THEN result
    ELSE IF SerializedLen(c) > space THEN "AccountDidNotSerialize"
    ELSE "Ok"

\* The errors the program defines.
CampaignError ==
    {"CampaignAlreadyPublished", "CampaignIdTooLong", "SemesterTooLong",
     "InvalidCampaignType", "PublicKeyTooLong", "Unauthorized",
     "NoResponsesSubmitted", "MismatchedDataLength"}

\* An instruction is atomic: its writes are kept only when it returns Ok.
Transaction(result, old, new) ==
    [result |-> result, data |-> IF result = "Ok" THEN new ELSE old]

(***************************************************************************)
(* create_campaign                                                         *)
(***************************************************************************)
\* Faulty variant: the encryption key is not checked.
create_campaign_require_one_key(campaign_id, semester, campaign_type, blind_signature_public_key, encryption_public_key) ==
    IF ~(campaign_id.len <= MAX_CAMPAIGN_ID_LEN) THEN "CampaignIdTooLong"
    ELSE IF ~(semester.len <= MAX_SEMESTER_LEN) THEN "SemesterTooLong"
    ELSE IF ~(campaign_type <= MAX_CAMPAIGN_TYPE) THEN "InvalidCampaignType"
    ELSE IF ~(blind_signature_public_key.len <= MAX_PUBLIC_KEY_LEN) THEN "PublicKeyTooLong"
    ELSE "Ok"

create_campaign_require(campaign_id, semester, campaign_type, blind_signature_public_key, encryption_public_key) ==
    IF ~(campaign_id.len <= MAX_CAMPAIGN_ID_LEN) THEN "CampaignIdTooLong"
    ELSE IF ~(semester.len <= MAX_SEMESTER_LEN) THEN "SemesterTooLong"
    ELSE IF ~(campaign_type <= MAX_CAMPAIGN_TYPE) THEN "InvalidCampaignType"
    ELSE IF ~(blind_signature_public_key.len <= MAX_PUBLIC_KEY_LEN) THEN "PublicKeyTooLong"
    ELSE IF ~(encryption_public_key.len <= MAX_PUBLIC_KEY_LEN) THEN "PublicKeyTooLong"
    ELSE "Ok"

create_campaign_init(authority, campaign_id, semester, campaign_type, blind_signature_public_key, encryption_public_key, now) ==
    [authority |-> authority,
     campaign_id |-> campaign_id,
     semester |-> semester,
     campaign_type |-> campaign_type,
     total_responses |-> 0,
     created_at |-> now,
     updated_at |-> now,
     is_published |-> FALSE,
     merkle_root |-> ZERO_ROOT,
     encrypted_responses |-> <<>>,
     commitments |-> <<>>,
     blind_signature_public_key |-> blind_signature_public_key,
     encryption_public_key |-> encryption_public_key]

\* The init constraint of CreateCampaign fails on an account that exists,
\* before the handler runs.  The derivation of the account address from the
\* seeds is not modelled.
create_campaign_handler(authority, campaign_id, semester, campaign_type, blind_signature_public_key, encryption_public_key, now) ==
    LET checked == create_campaign_require(campaign_id, semester, campaign_type,
                                           blind_signature_public_key,
                                           encryption_public_key)
    IN  [result |-> checked,
         account |->
             IF checked = "Ok"
             THEN create_campaign_init(authority, campaign_id, semester,
                                       campaign_type, blind_signature_public_key,
                                       encryption_public_key, now)
             ELSE SurveyCampaign]

\* The account and the space allocated to it, as the instruction leaves them.
create_campaign_tx(c, space, authority, campaign_id, semester, campaign_type, blind_signature_public_key, encryption_public_key, now) ==
    LET h == create_campaign_handler(authority, campaign_id, semester, campaign_type,
                                     blind_signature_public_key,
                                     encryption_public_key, now)
        result ==
            IF space # 0 THEN "AccountAlreadyInUse"
            ELSE exit(h.result, h.account, CreateCampaign_space)
    IN  Transaction(result,
                    [account |-> c, space |-> space],
                    [account |-> h.account, space |-> CreateCampaign_space])

create_campaign(authority, campaign_id, semester, campaign_type, blind_signature_public_key, encryption_public_key) ==
    LET tx == create_campaign_tx(campaign, campaign_space, authority, campaign_id,
                                 semester, campaign_type, blind_signature_public_key,
                                 encryption_public_key, clock)
    IN  /\ campaign' = tx.data.account
        /\ campaign_space' = tx.data.space
        /\ last' = [op |-> "create_campaign", result |-> tx.result]
        /\ UNCHANGED <<final_root, final_root_space, clock>>

(***************************************************************************)
(* submit_batch_responses                                                  *)
(***************************************************************************)
\* Faulty variant: the published flag is not checked.
submit_batch_responses_require_no_published_check(c, authority, commitments, encrypted_responses) ==
    IF ~(c.authority = authority) THEN "Unauthorized"
    ELSE IF ~(Len(commitments) = Len(encrypted_responses)) THEN "MismatchedDataLength"
    ELSE "Ok"

submit_batch_responses_require(c, authority, commitments, encrypted_responses) ==
    IF ~(~c.is_published) THEN "CampaignAlreadyPublished"
    ELSE IF ~(c.authority = authority) THEN "Unauthorized"
    ELSE IF ~(Len(commitments) = Len(encrypted_responses)) THEN "MismatchedDataLength"
    ELSE "Ok"

\* encrypted_responses.len() as u32.  A vector that fits into a transaction
\* has far fewer than 2^32 entries, so the cast keeps the length; and
\* total_responses counts entries stored in the account, so that
\* checked_add(response_count) stays within u32 and unwrap() does not panic.
response_count(encrypted_responses) == Len(encrypted_responses)

\* Faulty variant: the time is written to created_at.
submit_batch_responses_update_created_at(c, commitments, encrypted_responses, now) ==
    [c EXCEPT !.commitments = c.commitments \o commitments,
              !.encrypted_responses = c.encrypted_responses \o encrypted_responses,
              !.total_responses = c.total_responses + response_count(encrypted_responses),
              !.created_at = now]

\* Faulty variant: total_responses is not advanced.
submit_batch_responses_update_no_count(c, commitments, encrypted_responses, now) ==
    [c EXCEPT !.commitments = c.commitments \o commitments,
              !.encrypted_responses = c.encrypted_responses \o encrypted_responses,
              !.updated_at = now]

\* Faulty variant: the batch is put in front of the stored entries.
submit_batch_responses_update_prepend(c, commitments, encrypted_responses, now) ==
    [c EXCEPT !.commitments = commitments \o c.commitments,
              !.encrypted_responses = encrypted_responses \o c.encrypted_responses,
              !.total_responses = c.total_responses + response_count(encrypted_responses),
              !.updated_at = now]

submit_batch_responses_update(c, commitments, encrypted_responses, now) ==
    [c EXCEPT !.commitments = c.commitments \o commitments,
              !.encrypted_responses = c.encrypted_responses \o encrypted_responses,
              !.total_responses = c.total_responses + response_count(encrypted_responses),
              !.updated_at = now]

\* Faulty variant: the vectors are extended before the lengths are compared.
submit_batch_responses_handler_extend_first(c, authority, commitments, encrypted_responses, now) ==
    LET checked == submit_batch_responses_require(c, authority, commitments,
                                                  encrypted_responses)
    IN  [result |-> checked,
         account |->
             IF checked = "Ok"
             THEN submit_batch_responses_update(c, commitments,
                                                encrypted_responses, now)
             ELSE IF checked = "MismatchedDataLength"
             THEN [c EXCEPT !.commitments = c.commitments \o commitments,
                            !.encrypted_responses =
                                c.encrypted_responses \o encrypted_responses]
             ELSE c]

\* The handler: what it returns, and the account as it is in memory when it
\* returns.  Every require! stands before the first assignment.
submit_batch_responses_handler(c, authority, commitments, encrypted_responses, now) ==
    LET checked == submit_batch_responses_require(c, authority, commitments,
                                                  encrypted_responses)
    IN  [result |-> checked,
         account |->
             IF checked = "Ok"
             THEN submit_batch_responses_update(c, commitments,
                                                encrypted_responses, now)
             ELSE c]

\* The handler and the write-back: the result and the account data left.
submit_batch_responses_tx(c, space, authority, commitments, encrypted_responses, now) ==
    LET h == submit_batch_responses_handler(c, authority, commitments,
                                            encrypted_responses, now)
    IN  Transaction(exit(h.result, h.account, space), c, h.account)

submit_batch_responses(authority, commitments, encrypted_responses) ==
    LET tx == submit_batch_responses_tx(campaign, campaign_space, authority,
                                        commitments, encrypted_responses, clock)
    IN  /\ campaign_space # 0
        /\ campaign' = tx.data
        /\ last' = [op |-> "submit_batch_responses", result |-> tx.result]
        /\ UNCHANGED <<campaign_space, final_root, final_root_space, clock>>

(***************************************************************************)
(* publish_campaign_results                                                *)
(***************************************************************************)
\* Faulty variant: the published flag is not checked.
publish_campaign_results_require_no_published_check(c, authority) ==
    IF ~(c.authority = authority) THEN "Unauthorized"
    ELSE IF ~(c.total_responses > 0) THEN "NoResponsesSubmitted"
    ELSE "Ok"

\* Faulty variant: the number of responses is not checked.
publish_campaign_results_require_no_response_check(c, authority) ==
    IF ~(c.authority = authority) THEN "Unauthorized"
    ELSE IF ~(~c.is_published) THEN "CampaignAlreadyPublished"
    ELSE "Ok"

publish_campaign_results_require(c, authority) ==
    IF ~(c.authority = authority) THEN "Unauthorized"
    ELSE IF ~(~c.is_published) THEN "CampaignAlreadyPublished"
    ELSE IF ~(c.total_responses > 0) THEN "NoResponsesSubmitted"
    ELSE "Ok"

\* Faulty variant: is_published is not set.
publish_campaign_results_update_no_flag(c, merkle_root, now) ==
    [c EXCEPT !.merkle_root = merkle_root,
              !.updated_at = now,
              !.encrypted_responses = <<>>]

\* Faulty variant: the encrypted responses are not cleared.
publish_campaign_results_update_keep_payloads(c, merkle_root, now) ==
    [c EXCEPT !.merkle_root = merkle_root,
              !.is_published = TRUE,
              !.updated_at = now]

\* Variant: the root is computed from the commitments, not taken from the
\* argument.
publish_campaign_results_update_computed_root(c, merkle_root, now) ==
    [c EXCEPT !.merkle_root = build_root(c.commitments),
              !.is_published = TRUE,
              !.updated_at = now,
              !.encrypted_responses = <<>>]

\* Faulty variant: the root is not stored.
publish_campaign_results_update_no_root(c, merkle_root, now) ==
    [c EXCEPT !.is_published = TRUE,
              !.updated_at = now,
              !.encrypted_responses = <<>>]

publish_campaign_results_update(c, merkle_root, now) ==
    [c EXCEPT !.merkle_root = merkle_root,
              !.is_published = TRUE,
              !.updated_at = now,
              !.encrypted_responses = <<>>]

publish_campaign_results_handler(c, authority, merkle_root, now) ==
    LET checked == publish_campaign_results_require(c, authority)
    IN  [result |-> checked,
         account |-> IF checked = "Ok"
                     THEN publish_campaign_results_update(c, merkle_root, now)
                     ELSE c]

publish_campaign_results_tx(c, space, authority, merkle_root, now) ==
    LET h == publish_campaign_results_handler(c, authority, merkle_root, now)
    IN  Transaction(exit(h.result, h.account, space), c, h.account)

publish_campaign_results(authority, merkle_root) ==
    LET tx == publish_campaign_results_tx(campaign, campaign_space, authority,
                                          merkle_root, clock)
    IN  /\ campaign_space # 0
        /\ campaign' = tx.data
        /\ last' = [op |-> "publish_campaign_results", result |-> tx.result]
        /\ UNCHANGED <<campaign_space, final_root, final_root_space, clock>>

(***************************************************************************)
(* initialize_final_root, update_final_merkle_root                         *)
(***************************************************************************)
initialize_final_root_init(authority, university_id, now) ==
    [authority |-> authority,
     university_id |-> university_id,
     total_campaigns |-> 0,
     created_at |-> now,
     updated_at |-> now,
     final_merkle_root |-> ZERO_ROOT]

initialize_final_root_tx(f, space, authority, university_id, now) ==
    LET new == initialize_final_root_init(authority, university_id, now)
        result == IF space # 0 THEN "AccountAlreadyInUse" ELSE "Ok"
    IN  Transaction(result,
                    [account |-> f, space |-> space],
                    [account |-> new, space |-> InitializeFinalRoot_space])

initialize_final_root(authority, university_id) ==
    LET tx == initialize_final_root_tx(final_root, final_root_space, authority,
                                       university_id, clock)
    IN  /\ final_root' = tx.data.account
        /\ final_root_space' = tx.data.space
        /\ last' = [op |-> "initialize_final_root", result |-> tx.result]
        /\ UNCHANGED <<campaign, campaign_space, clock>>

\* Faulty variant: the authority is not checked.
update_final_merkle_root_require_no_authority_check(f, authority) == "Ok"

update_final_merkle_root_require(f, authority) ==
    IF ~(f.authority = authority) THEN "Unauthorized" ELSE "Ok"

\* Faulty variant: every update counts a campaign.
update_final_merkle_root_update_counts(f, final_merkle_root, now) ==
    [f EXCEPT !.final_merkle_root = final_merkle_root,
              !.total_campaigns = f.total_campaigns + 1,
              !.updated_at = now]

\* Faulty variant: the new root is folded into the stored one.
update_final_merkle_root_update_fold(f, final_merkle_root, now) ==
    [f EXCEPT !.final_merkle_root = hash(f.final_merkle_root, final_merkle_root),
              !.updated_at = now]

update_final_merkle_root_update(f, final_merkle_root, now) ==
    [f EXCEPT !.final_merkle_root = final_merkle_root,
              !.updated_at = now]

update_final_merkle_root_handler(f, authority, final_merkle_root, now) ==
    LET checked == update_final_merkle_root_require(f, authority)
    IN  [result |-> checked,
         account |-> IF checked = "Ok"
                     THEN update_final_merkle_root_update(f, final_merkle_root, now)
                     ELSE f]

update_final_merkle_root_tx(f, authority, final_merkle_root, now) ==
    LET h == update_final_merkle_root_handler(f, authority, final_merkle_root, now)
    IN  Transaction(h.result, f, h.account)

update_final_merkle_root(authority, final_merkle_root) ==
    LET tx == update_final_merkle_root_tx(final_root, authority, final_merkle_root,
                                          clock)
    IN  /\ final_root_space # 0
        /\ final_root' = tx.data
        /\ last' = [op |-> "update_final_merkle_root", result |-> tx.result]
        /\ UNCHANGED <<campaign, campaign_space, final_root_space, clock>>

(***************************************************************************)
(* The clock of the cluster advances between instructions.                 *)
(***************************************************************************)
Tick ==
    /\ clock < MaxClock
    /\ clock' = clock + 1
    /\ UNCHANGED <<campaign, campaign_space, final_root, final_root_space, last>>

(***************************************************************************)
(* Specification.                                                          *)
(***************************************************************************)
Init ==
    /\ campaign = SurveyCampaign
    /\ campaign_space = 0
    /\ final_root = UniversityPerformance
    /\ final_root_space = 0
    /\ clock = 0
    /\ last = [op |-> "none", result |-> "Ok"]

CreateCampaign ==
    \E authority \in Signers, r \in CreateRequests :
        create_campaign(authority, r.campaign_id, r.semester, r.campaign_type,
                        r.blind_signature_public_key, r.encryption_public_key)

SubmitBatchResponses ==
    \E authority \in Signers,
       commitments \in CommitmentBatches(Len(campaign.commitments)) :
        \E encrypted_responses \in
               EncryptedBatches(commitments, Len(campaign.commitments)) :
                submit_batch_responses(authority, commitments, encrypted_responses)

PublishCampaignResults ==
    \E authority \in Signers, merkle_root \in Roots(campaign) :
        publish_campaign_results(authority, merkle_root)

InitializeFinalRoot ==
    \E authority \in Signers, university_id \in UniversityIds :
        initialize_final_root(authority, university_id)

UpdateFinalMerkleRoot ==
    \E authority \in Signers, final_merkle_root \in Digests :
        update_final_merkle_root(authority, final_merkle_root)

Next ==
    \/ CreateCampaign
    \/ SubmitBatchResponses
    \/ PublishCampaignResults
    \/ InitializeFinalRoot
    \/ UpdateFinalMerkleRoot
    \/ Tick

Spec == Init /\ [][Next]_vars

\* The campaign account alone: no instruction touches both accounts.
CampaignNext ==
    \/ CreateCampaign
    \/ SubmitBatchResponses
    \/ PublishCampaignResults
    \/ Tick

CampaignSpec == Init /\ [][CampaignNext]_vars

(***************************************************************************)
(* Properties.                                                             *)
(***************************************************************************)
IsPrefix(s, t) == Len(s) <= Len(t) /\ SubSeq(t, 1, Len(s)) = s

Created == campaign_space # 0

Did(op, result) == last.op = op /\ last.result = result

\* The step is a call of the instruction (with some arguments): every
\* instruction records itself in last and leaves the clock alone.
SubmitStep == last'.op = "submit_batch_responses" /\ clock' = clock

PublishStep == last'.op = "publish_campaign_results" /\ clock' = clock

UpdateStep == last'.op = "update_final_merkle_root" /\ clock' = clock

\* C1: in every reachable state total_responses equals the number of stored
\* commitments, and while the campaign is not published the number of
\* commitments equals the number of encrypted responses.
C1_CountsAgree ==
    /\ campaign.total_responses = Len(campaign.commitments)
    /\ ~campaign.is_published =>
           Len(campaign.commitments) = Len(campaign.encrypted_responses)

\* A failing submit on an open campaign that already holds responses.
C1_Witness ==
    /\ Created
    /\ ~campaign.is_published
    /\ campaign.total_responses >= 2
    /\ Did("submit_batch_responses", "MismatchedDataLength")

\* C2: once published, a campaign stays published, its commitments,
\* total_responses and merkle_root never change, and every
\* submit_batch_responses fails with CampaignAlreadyPublished.
C2_SealedIsTerminal ==
    [][campaign.is_published =>
          /\ campaign'.is_published
          /\ campaign'.commitments = campaign.commitments
          /\ campaign'.total_responses = campaign.total_responses
          /\ campaign'.merkle_root = campaign.merkle_root
          /\ SubmitStep =>
                 \A a \in Signers, cs \in CommitmentBatches(Len(campaign.commitments)) :
                 \A es \in EncryptedBatches(cs, Len(campaign.commitments)) :
                 submit_batch_responses(a, cs, es) =>
                     last'.result = "CampaignAlreadyPublished"]_vars

C2_Witness ==
    /\ campaign.is_published
    /\ Len(campaign.commitments) < MaxResponses
    /\ Did("submit_batch_responses", "CampaignAlreadyPublished")

\* C3 as stated: a publish_campaign_results call on a published campaign
\* fails with CampaignAlreadyPublished whoever calls, and changes nothing.
C3_Original ==
    [][PublishStep => \A a \in Signers, r \in Roots(campaign) :
          campaign.is_published /\ publish_campaign_results(a, r) =>
              /\ last'.result = "CampaignAlreadyPublished"
              /\ campaign' = campaign]_vars

\* C3 amended: a publish_campaign_results call on a published campaign
\* always fails and changes nothing; the error is CampaignAlreadyPublished
\* when the caller is the authority and Unauthorized for any other caller.
C3_SecondPublishFails ==
    [][PublishStep => \A a \in Signers, r \in Roots(campaign) :
          campaign.is_published /\ publish_campaign_results(a, r) =>
              /\ last'.result = IF a = campaign.authority
                                THEN "CampaignAlreadyPublished"
                                ELSE "Unauthorized"
              /\ campaign' = campaign
              /\ campaign_space' = campaign_space]_vars

C3_Witness ==
    /\ campaign.is_published
    /\ campaign.merkle_root # ZERO_ROOT
    /\ Did("publish_campaign_results", "CampaignAlreadyPublished")

\* C4 as stated: in every reachable state, a caller other than the stored
\* authority gets Unauthorized from submit_batch_responses,
\* publish_campaign_results and update_final_merkle_root, and the targeted
\* account is unchanged.
C4_Original ==
    /\ Created =>
           \A a \in Signers \ {campaign.authority} :
               /\ \A cs \in CommitmentBatches(Len(campaign.commitments)) :
                  \A es \in EncryptedBatches(cs, Len(campaign.commitments)) :
                      submit_batch_responses_tx(campaign, campaign_space, a, cs, es, clock)
                          = [result |-> "Unauthorized", data |-> campaign]
               /\ \A r \in Roots(campaign) :
                      publish_campaign_results_tx(campaign, campaign_space, a, r, clock)
                          = [result |-> "Unauthorized", data |-> campaign]
    /\ final_root_space # 0 =>
           \A a \in Signers \ {final_root.authority}, r \in Digests :
               update_final_merkle_root_tx(final_root, a, r, clock)
                   = [result |-> "Unauthorized", data |-> final_root]

\* C4 amended: in every reachable state, a caller other than the stored
\* authority never changes the targeted account; publish_campaign_results
\* and update_final_merkle_root return Unauthorized, and
\* submit_batch_responses returns Unauthorized on an open campaign and
\* CampaignAlreadyPublished on a published one.
C4_UnauthorizedChangesNothing ==
    /\ Created =>
           \A a \in Signers \ {campaign.authority} :
               /\ \A cs \in CommitmentBatches(Len(campaign.commitments)) :
                  \A es \in EncryptedBatches(cs, Len(campaign.commitments)) :
                      submit_batch_responses_tx(campaign, campaign_space, a, cs, es, clock)
                          = [result |-> IF campaign.is_published
                                        THEN "CampaignAlreadyPublished"
                                        ELSE "Unauthorized",
                             data |-> campaign]
               /\ \A r \in Roots(campaign) :
                      publish_campaign_results_tx(campaign, campaign_space, a, r, clock)
                          = [result |-> "Unauthorized", data |-> campaign]
    /\ final_root_space # 0 =>
           \A a \in Signers \ {final_root.authority}, r \in Digests :
               update_final_merkle_root_tx(final_root, a, r, clock)
                   = [result |-> "Unauthorized", data |-> final_root]

\* An unauthorized update of a final root that the authority has set, beside
\* a campaign that holds responses.
C4_Witness ==
    /\ Created
    /\ campaign.total_responses > 0
    /\ final_root.final_merkle_root # ZERO_ROOT
    /\ Did("update_final_merkle_root", "Unauthorized")

\* C5 as stated: merkle_root is zero if and only if is_published is false.
C5_Original ==
    campaign.merkle_root = ZERO_ROOT <=> ~campaign.is_published

\* C5 amended: merkle_root is zero whenever is_published is false; the root
\* of a published campaign is the value the authority passed, which may be
\* zero.
C5_UnpublishedRootIsZero ==
    ~campaign.is_published => campaign.merkle_root = ZERO_ROOT

\* An open campaign with responses on which a publish attempt has failed.
C5_Witness ==
    /\ Created
    /\ ~campaign.is_published
    /\ campaign.total_responses > 0
    /\ Did("publish_campaign_results", "Unauthorized")

\* C6: a successful publish_campaign_results keeps commitments and
\* total_responses and empties encrypted_responses, which stay empty in
\* every later state.
C6_PublishFrame ==
    [][/\ PublishStep => \A a \in Signers, r \in Roots(campaign) :
              publish_campaign_results(a, r) /\ last'.result = "Ok" =>
                  /\ campaign'.commitments = campaign.commitments
                  /\ campaign'.total_responses = campaign.total_responses
                  /\ campaign'.encrypted_responses = <<>>
       /\ campaign.is_published => campaign'.encrypted_responses = <<>>]_vars

C6_Witness ==
    /\ campaign.is_published
    /\ Len(campaign.commitments) >= 2
    /\ campaign.encrypted_responses = <<>>
    /\ Did("publish_campaign_results", "Ok")

\* C7: across every step the old commitments are a prefix of the new ones
\* and total_responses does not decrease; a successful
\* submit_batch_responses puts the supplied commitments and, at the same
\* indices, the supplied encrypted responses at the end, in the supplied
\* order.
C7_AppendOnly ==
    [][/\ IsPrefix(campaign.commitments, campaign'.commitments)
       /\ campaign'.total_responses >= campaign.total_responses
       /\ SubmitStep =>
              \A a \in Signers, cs \in CommitmentBatches(Len(campaign.commitments)) :
              \A es \in EncryptedBatches(cs, Len(campaign.commitments)) :
              submit_batch_responses(a, cs, es) /\ last'.result = "Ok" =>
                  LET n == Len(campaign.commitments)
                  IN  /\ Len(campaign'.commitments) = n + Len(cs)
                      /\ Len(campaign'.encrypted_responses) = n + Len(cs)
                      /\ \A i \in 1..Len(cs) :
                             /\ campaign'.commitments[n + i] = cs[i]
                             /\ campaign'.encrypted_responses[n + i] = es[i]]_vars

C7_Witness ==
    /\ Did("submit_batch_responses", "Ok")
    /\ Len(campaign.commitments) >= 2
    /\ Len(campaign.encrypted_responses) >= 2
    /\ campaign.commitments[1] # campaign.commitments[2]
    /\ campaign.encrypted_responses[1] # campaign.encrypted_responses[2]

\* C8 as stated: after a batch append of 3 commitments and a publish, the
\* stored root is build_root of the commitments, the payloads are empty and
\* the campaign is published.
C8_Original ==
    Did("publish_campaign_results", "Ok") /\ Len(campaign.commitments) = 3 =>
        /\ campaign.merkle_root = build_root(campaign.commitments)
        /\ campaign.encrypted_responses = <<>>
        /\ campaign.is_published

\* C8 amended: publish_campaign_results takes the root as an argument and
\* does not compute one: after a batch append of 3 commitments and a
\* successful publish with root r, the stored root is r, the commitments
\* are kept, the payloads are empty and the campaign is published.
C8_PublishStoresArgument ==
    [][PublishStep => \A a \in Signers, r \in Roots(campaign) :
          /\ Did("submit_batch_responses", "Ok")
          /\ Len(campaign.commitments) = 3
          /\ publish_campaign_results(a, r)
          /\ last'.result = "Ok"
          => /\ campaign'.merkle_root = r
             /\ campaign'.commitments = campaign.commitments
             /\ campaign'.encrypted_responses = <<>>
             /\ campaign'.is_published]_vars

\* The caller passed the root computed off-chain from the 3 commitments.
C8_Witness ==
    /\ Did("publish_campaign_results", "Ok")
    /\ Len(campaign.commitments) = 3
    /\ campaign.merkle_root = build_root(campaign.commitments)
    /\ campaign.merkle_root \notin Digests

\* C9: when the authority publishes an open campaign that has responses,
\* the call succeeds for every root and stores the root as passed.
C9_RootStoredVerbatim ==
    [][PublishStep => \A a \in Signers, r \in Roots(campaign) :
          /\ a = campaign.authority
          /\ ~campaign.is_published
          /\ campaign.total_responses > 0
          /\ publish_campaign_results(a, r)
          => /\ last'.result = "Ok"
             /\ campaign'.merkle_root = r]_vars

\* A published root that is not the root of the stored commitments.
C9_Witness ==
    /\ Did("publish_campaign_results", "Ok")
    /\ campaign.is_published
    /\ Len(campaign.commitments) >= 2
    /\ campaign.merkle_root # build_root(campaign.commitments)

\* C10: publish_campaign_results by the authority on an open campaign with
\* total_responses = 0 fails with NoResponsesSubmitted and changes nothing;
\* submit_batch_responses with empty vectors by the authority succeeds and
\* changes only updated_at.
C10_NoResponses ==
    [][/\ PublishStep => \A a \in Signers, r \in Roots(campaign) :
              /\ a = campaign.authority
              /\ ~campaign.is_published
              /\ campaign.total_responses = 0
              /\ publish_campaign_results(a, r)
              => /\ last'.result = "NoResponsesSubmitted"
                 /\ campaign' = campaign
                 /\ campaign_space' = campaign_space
       /\ SubmitStep => \A a \in Signers :
              /\ a = campaign.authority
              /\ ~campaign.is_published
              /\ submit_batch_responses(a, <<>>, <<>>)
              => /\ last'.result = "Ok"
                 /\ campaign' = [campaign EXCEPT !.updated_at = clock]]_vars

\* A publish refused after an empty submit moved updated_at.
C10_Witness ==
    /\ Did("publish_campaign_results", "NoResponsesSubmitted")
    /\ campaign.updated_at > campaign.created_at
    /\ campaign.total_responses = 0
    /\ ~campaign.is_published

\* C11: in every reachable state, whatever the caller and the arguments, a
\* handler that returns an error returns one of its own errors and has
\* written no field of the account when it returns, and an instruction that
\* fails for any reason leaves the account and its space as they were; no
\* reachable state holds commitments that total_responses does not count.
C11_FailureWritesNothing ==
    /\ campaign.total_responses = Len(campaign.commitments)
    /\ \A a \in Signers, r \in CreateRequests :
           LET h == create_campaign_handler(a, r.campaign_id, r.semester,
                        r.campaign_type, r.blind_signature_public_key,
                        r.encryption_public_key, clock)
               tx == create_campaign_tx(campaign, campaign_space, a, r.campaign_id,
                         r.semester, r.campaign_type, r.blind_signature_public_key,
                         r.encryption_public_key, clock)
           IN  /\ h.result # "Ok" =>
                      /\ h.result \in {"CampaignIdTooLong", "SemesterTooLong",
                                       "InvalidCampaignType", "PublicKeyTooLong"}
                      /\ h.account = SurveyCampaign
               /\ tx.result # "Ok" =>
                      tx.data = [account |-> campaign, space |-> campaign_space]
    /\ Created =>
           \A a \in Signers :
               /\ \A cs \in CommitmentBatches(Len(campaign.commitments)) :
                  \A es \in EncryptedBatches(cs, Len(campaign.commitments)) :
                      LET h == submit_batch_responses_handler(campaign, a, cs, es, clock)
                          tx == submit_batch_responses_tx(campaign, campaign_space,
                                                          a, cs, es, clock)
                      IN  /\ h.result # "Ok" =>
                                 /\ h.result \in {"CampaignAlreadyPublished",
                                                  "Unauthorized",
                                                  "MismatchedDataLength"}
                                 /\ h.account = campaign
                          /\ tx.result # "Ok" => tx.data = campaign
               /\ \A r \in Roots(campaign) :
                      LET h == publish_campaign_results_handler(campaign, a, r, clock)
                          tx == publish_campaign_results_tx(campaign, campaign_space,
                                                            a, r, clock)
                      IN  /\ h.result # "Ok" =>
                                 /\ h.result \in {"Unauthorized",
                                                  "CampaignAlreadyPublished",
                                                  "NoResponsesSubmitted"}
                                 /\ h.account = campaign
                          /\ tx.result # "Ok" => tx.data = campaign
    /\ final_root_space # 0 =>
           \A a \in Signers, r \in Digests :
               LET h == update_final_merkle_root_handler(final_root, a, r, clock)
                   tx == update_final_merkle_root_tx(final_root, a, r, clock)
               IN  /\ h.result # "Ok" =>
                          h.result = "Unauthorized" /\ h.account = final_root
                   /\ tx.result # "Ok" => tx.data = final_root

\* A submit with vectors of different lengths has failed on an open campaign
\* that holds responses, beside an initialized final root.
C11_Witness ==
    /\ Created
    /\ final_root_space # 0
    /\ ~campaign.is_published
    /\ campaign.total_responses >= 1
    /\ Len(campaign.encrypted_responses) = campaign.total_responses
    /\ Did("submit_batch_responses", "MismatchedDataLength")

\* C13: in every reachable state, a create_campaign request with a
\* campaign_id longer than 50, a semester longer than 20, a campaign_type
\* greater than 1 or a public key longer than 300 bytes fails and creates
\* nothing; a create_campaign that succeeds leaves total_responses = 0,
\* is_published = false, a zero merkle_root, empty vectors and the caller
\* as authority; and the stored fields are within these limits.
C13_CreateValidates ==
    /\ \A a \in Signers, r \in CreateRequests :
           LET tx == create_campaign_tx(campaign, campaign_space, a, r.campaign_id,
                         r.semester, r.campaign_type, r.blind_signature_public_key,
                         r.encryption_public_key, clock)
               beyond == \/ r.campaign_id.len > 50
                         \/ r.semester.len > 20
                         \/ r.campaign_type > 1
                         \/ r.blind_signature_public_key.len > 300
                         \/ r.encryption_public_key.len > 300
           IN  /\ beyond =>
                      /\ tx.result # "Ok"
                      /\ tx.data = [account |-> campaign, space |-> campaign_space]
               /\ tx.result = "Ok" =>
                      /\ tx.data.account.total_responses = 0
                      /\ tx.data.account.is_published = FALSE
                      /\ tx.data.account.merkle_root = ZERO_ROOT
                      /\ tx.data.account.commitments = <<>>
                      /\ tx.data.account.encrypted_responses = <<>>
                      /\ tx.data.account.authority = a
    /\ campaign.campaign_id.len <= 50
    /\ campaign.semester.len <= 20
    /\ campaign.campaign_type \in 0..1
    /\ campaign.blind_signature_public_key.len <= 300
    /\ campaign.encryption_public_key.len <= 300

\* A request with a key of 301 bytes has been rejected and no campaign
\* exists.
C13_Witness ==
    /\ Did("create_campaign", "PublicKeyTooLong")
    /\ ~Created
    /\ campaign = SurveyCampaign

\* C14: an update_final_merkle_root call by the stored authority succeeds
\* whatever the stored root and the state of the campaign; a successful
\* call with root r leaves r stored; and the same call made again, at once
\* or at a later time, succeeds and leaves the same root (at once: the same
\* account data).
C14_IdempotentOverwrite ==
    [][UpdateStep => \A a \in Signers, r \in Digests :
          update_final_merkle_root(a, r) =>
              /\ a = final_root.authority => last'.result = "Ok"
              /\ last'.result = "Ok" =>
                     /\ final_root'.final_merkle_root = r
                     /\ update_final_merkle_root_tx(final_root', a, r, clock)
                            = [result |-> "Ok", data |-> final_root']
                     /\ \A now \in clock..MaxClock :
                            LET again == update_final_merkle_root_tx(final_root', a,
                                                                     r, now)
                            IN  /\ again.result = "Ok"
                                /\ again.data.final_merkle_root = r]_vars

\* The authority has replaced the initial root after the clock moved, beside
\* a published campaign.
C14_Witness ==
    /\ Did("update_final_merkle_root", "Ok")
    /\ final_root.final_merkle_root # ZERO_ROOT
    /\ final_root.updated_at > final_root.created_at
    /\ campaign.is_published

\* C15: for every number of responses n (here: up to the initial allocation
\* beyond what the campaign holds), calculate_size_for_responses(n) is
\* BASE_LEN + n*(256+32) and calculate_size_after_publishing(n) is
\* BASE_LEN + n*32; neither decreases as n grows; and for n > 0 the size
\* after publishing is strictly smaller.  (num_responses is a u32 widened
\* to a 64-bit usize, so the products do not wrap.)
C15_SizeFormulas ==
    \A n \in 0..(campaign.total_responses + INITIAL_RESPONSES) :
        /\ calculate_size_for_responses(n) = BASE_LEN + n * (256 + 32)
        /\ calculate_size_after_publishing(n) = BASE_LEN + n * 32
        /\ \A m \in 0..n :
               /\ calculate_size_for_responses(m) <= calculate_size_for_responses(n)
               /\ calculate_size_after_publishing(m)
                      <= calculate_size_after_publishing(n)
        /\ n > 0 =>
               calculate_size_after_publishing(n) < calculate_size_for_responses(n)

\* A published campaign with responses: its data fits the size after
\* publishing, which is below the size for the same number of responses.
C15_Witness ==
    /\ campaign.is_published
    /\ campaign.total_responses > 0
    /\ SerializedLen(campaign)
           <= DISCRIMINATOR_LEN
              + calculate_size_after_publishing(campaign.total_responses)
    /\ calculate_size_after_publishing(campaign.total_responses)
           < calculate_size_for_responses(campaign.total_responses)

\* C16: build_root is defined for every list (here: of up to MaxResponses
\* digests, the stored commitments among them); build_root([]) is the zero
\* digest, build_root([c]) = c, build_root([a,b]) = hash(a||b) and
\* build_root([a,b,c]) = hash(hash(a||b) || c): the unpaired last node is
\* carried up, not paired with itself.
C16_BuildRoot ==
    /\ build_root(<<>>) = ZERO_ROOT
    /\ \A a \in Digests, b \in Digests, c \in Digests :
           /\ build_root(<<a>>) = a
           /\ build_root(<<a, b>>) = hash(a, b)
           /\ build_root(<<a, b, c>>) = hash(hash(a, b), c)
           /\ build_root(<<a, b, c>>) # hash(hash(a, b), hash(c, c))
    /\ \A cs \in SeqsUpTo(Digests, MaxResponses) : build_root(cs) \in Nat
    /\ build_root(campaign.commitments) \in Nat

\* The campaign was published with the root built from its 3 commitments.
C16_Witness ==
    /\ campaign.is_published
    /\ Len(campaign.commitments) = 3
    /\ campaign.merkle_root = build_root(campaign.commitments)
    /\ campaign.merkle_root =
           hash(hash(campaign.commitments[1], campaign.commitments[2]),
                campaign.commitments[3])

\* C17: create_campaign allocates the account for 10 responses; after a
\* successful submit_batch_responses the space allocated to the campaign is
\* at least calculate_size_for_responses(total_responses); and after a
\* successful publish_campaign_results it is
\* calculate_size_after_publishing(total_responses) (with or without the
\* 8 bytes of the discriminator).
C17_StorageTracksCapacity ==
    /\ Did("create_campaign", "Ok") =>
           campaign_space = DISCRIMINATOR_LEN + calculate_size_for_responses(10)
    /\ Did("submit_batch_responses", "Ok") =>
           campaign_space >= calculate_size_for_responses(campaign.total_responses)
    /\ Did("publish_campaign_results", "Ok") =>
           campaign_space \in
               {calculate_size_after_publishing(campaign.total_responses),
                DISCRIMINATOR_LEN
                    + calculate_size_after_publishing(campaign.total_responses)}

\* The encoded width of the campaign's fields without the discriminator and
\* without the entries of the two vectors.
FixedLen(c) ==
    SerializedLen(c) - DISCRIMINATOR_LEN
        - ENCRYPTED_RESPONSE_LEN * Len(c.encrypted_responses)
        - COMMITMENT_LEN * Len(c.commitments)

InitializeStep == last'.op = "initialize_final_root" /\ clock' = clock

\* C19: an update_final_merkle_root call changes at most final_merkle_root
\* and updated_at of the final-root account; a successful
\* initialize_final_root stores the caller as authority and the
\* university_id passed, with total_campaigns = 0; and no step changes
\* authority, university_id, total_campaigns or created_at of an
\* initialized account, so that total_campaigns is 0 throughout.
C19_FinalRootFrame ==
    [][/\ final_root.total_campaigns = 0
       /\ final_root'.total_campaigns = 0
       /\ final_root_space # 0 =>
              /\ final_root'.authority = final_root.authority
              /\ final_root'.university_id = final_root.university_id
              /\ final_root'.created_at = final_root.created_at
              /\ final_root_space' = final_root_space
       /\ InitializeStep => \A a \in Signers, u \in UniversityIds :
              initialize_final_root(a, u) /\ last'.result = "Ok" =>
                  /\ final_root'.authority = a
                  /\ final_root'.university_id = u
       /\ UpdateStep => \A a \in Signers, r \in Digests :
              update_final_merkle_root(a, r) =>
                  \/ final_root' = final_root
                  \/ final_root' = [final_root EXCEPT !.final_merkle_root = r,
                                                      !.updated_at = clock]]_vars

\* The final root that bob initialized has been updated at a later time.
C19_Witness ==
    /\ Did("update_final_merkle_root", "Ok")
    /\ final_root.authority = "bob"
    /\ final_root.university_id \in UniversityIds
    /\ final_root.total_campaigns = 0
    /\ final_root.final_merkle_root # ZERO_ROOT
    /\ final_root.updated_at > final_root.created_at

CreateStep == last'.op = "create_campaign" /\ clock' = clock

\* C20: a successful create_campaign stores the caller as authority, the
\* arguments as campaign_id, semester, campaign_type and the two keys, and
\* the time as created_at; and no step on an existing campaign (a
\* submit_batch_responses or publish_campaign_results by any caller,
\* succeeding or failing, among them) changes any of these fields.
C20_CreationFieldsFixed ==
    [][/\ Created =>
              /\ campaign'.authority = campaign.authority
              /\ campaign'.campaign_id = campaign.campaign_id
              /\ campaign'.semester = campaign.semester
              /\ campaign'.campaign_type = campaign.campaign_type
              /\ campaign'.created_at = campaign.created_at
              /\ campaign'.blind_signature_public_key
                     = campaign.blind_signature_public_key
              /\ campaign'.encryption_public_key = campaign.encryption_public_key
       /\ CreateStep => \A a \in Signers, r \in CreateRequests :
              /\ create_campaign(a, r.campaign_id, r.semester, r.campaign_type,
                                 r.blind_signature_public_key,
                                 r.encryption_public_key)
              /\ last'.result = "Ok"
              => /\ campaign'.authority = a
                 /\ campaign'.campaign_id = r.campaign_id
                 /\ campaign'.semester = r.semester
                 /\ campaign'.campaign_type = r.campaign_type
                 /\ campaign'.created_at = clock
                 /\ campaign'.blind_signature_public_key
                        = r.blind_signature_public_key
                 /\ campaign'.encryption_public_key = r.encryption_public_key]_vars

\* The campaign that bob created at time 0 was extended and published at a
\* later time.
C20_Witness ==
    /\ Did("publish_campaign_results", "Ok")
    /\ campaign.authority = "bob"
    /\ campaign.campaign_id = Bytes(8, "id")
    /\ campaign.created_at < campaign.updated_at
    /\ campaign.total_responses >= 2

====
